---- MODULE Spec2Model ----
(***************************************************************************)
(* Model of the open-addressed hash table of src/src/dictionary.rs:       *)
(* Dictionary<K, V> with its Bucket table, the perturbation probe          *)
(* sequence shared by lookup and force_insert, and the grow / shrink       *)
(* policy of insert and remove.                                            *)
(***************************************************************************)
EXTENDS Integers, Sequences, FiniteSets, TLC

\* ---------------------------------------------------------------- bounds
NumKeys == 2        \* inserted keys are 1..NumKeys
NumVals == 2        \* values are 1..NumVals
MaxHash == 2        \* get_hash ranges over 0..MaxHash
MaxCap == 8         \* insert is not taken when it would grow past MaxCap
MaxInitCap == 3     \* with_capacity(c) is called with c in 0..MaxInitCap
MaxTuples == 3      \* from_tuples / from_vecs inputs have at most this length
MaxWideCap == 10    \* SpecWide: with_capacity(c) with c in 0..MaxWideCap, no growth past it
MaxProbeDigit == 1  \* SpecProbe: hashes lo + 32*hi with lo, hi in 0..MaxProbeDigit

Keys == 1..NumKeys
\* A key that is looked up and removed but never inserted.
AbsentKey == NumKeys + 1
AllKeys == Keys \cup {AbsentKey}
Vals == 1..NumVals
HashVals == 0..MaxHash
Pairs == Keys \X Vals

\* get_hash: a fixed function of the key.  The table only ever compares keys
\* for equality and hashes them, so keys are interchangeable and the
\* functions are taken nondecreasing in the key.
HashFunctions ==
    {f \in [AllKeys -> HashVals] : \A j, k \in Keys : j <= k => f[j] <= f[k]}

\* ------------------------------------------------------------- constants
PERTURB_SHIFT == 5
NEW_CAPACITY == 8

VARIABLES
    status,     \* "none" before construction, "ok", "panic", "hang"
    capacity,   \* Dictionary.capacity
    size,       \* Dictionary.size
    table,      \* Dictionary.table: [0..capacity-1 -> Bucket]
    hash,       \* the hash of every key: what get_hash returns
    expect,     \* ghost: value of the last insert of each key, 0 after remove
    last        \* ghost: the last operation, its arguments and its result

vars == <<status, capacity, size, table, hash, expect, last>>

\* Hashes whose perturb is still nonzero after one shift.
ProbeHashes == {lo + (2 ^ PERTURB_SHIFT) * hi : lo, hi \in 0..MaxProbeDigit}

ProbeHashFunctions ==
    {f \in [AllKeys -> ProbeHashes] :
        /\ f[AbsentKey] = 0
        /\ \A j, k \in Keys : j <= k => f[j] <= f[k]}

\* ---------------------------------------------------------------- Bucket
Empty == [tag |-> "Empty"]

\* Variant in which a removed slot is indistinguishable from an Empty one.
Tombstone_AsEmpty == Empty

Tombstone == [tag |-> "Tombstone"]
Entry(k, v, h, i) == [tag |-> "Entry", key |-> k, val |-> v, hash |-> h, idx |-> i]

EmptyTable(cap) == [i \in 0..(cap - 1) |-> Empty]

\* Variant of the shift that drops one bit only.
Shr_ByOne(perturb) == perturb \div 2

\* perturb >>= PERTURB_SHIFT
Shr(perturb) == perturb \div (2 ^ PERTURB_SHIFT)

\* index = ((5*index) + 1 + perturb) % self.capacity, perturb already shifted
ProbeNext(index, perturb, cap) == ((5 * index) + 1 + perturb) % cap

\* ---------------------------------------------------------------- lookup
\* Variant of the lookup loop in which a Tombstone ends the search like Empty.
RECURSIVE LookupFrom_TombstoneEnds(_, _, _, _, _, _)
LookupFrom_TombstoneEnds(t, cap, key, index, perturb, zsteps) ==
    IF zsteps > cap THEN [res |-> "Loop"]
    ELSE LET current == t[index]
             p == Shr(perturb)
             z == IF perturb = 0 THEN zsteps + 1 ELSE zsteps
         IN  IF current.tag = "Entry"
             THEN IF current.key = key
                  THEN [res |-> "Some", key |-> current.key, val |-> current.val, idx |-> index]
                  ELSE LookupFrom_TombstoneEnds(t, cap, key, ProbeNext(index, p, cap), p, z)
             ELSE [res |-> "None"]

\* The loop of lookup from (index, perturb).  zsteps counts the iterations
\* made with perturb = 0: from then on the index sequence is a function of
\* the index alone, so more than cap such iterations without a break repeat
\* an index and the loop never ends ("Loop").
RECURSIVE LookupFrom(_, _, _, _, _, _)
LookupFrom(t, cap, key, index, perturb, zsteps) ==
    IF zsteps > cap THEN [res |-> "Loop"]
    ELSE LET current == t[index]
             p == Shr(perturb)
             z == IF perturb = 0 THEN zsteps + 1 ELSE zsteps
         IN  IF current.tag = "Entry"
             THEN IF current.key = key
                  THEN [res |-> "Some", key |-> current.key, val |-> current.val, idx |-> index]
                  ELSE LookupFrom(t, cap, key, ProbeNext(index, p, cap), p, z)
             ELSE IF current.tag = "Tombstone"
             THEN LookupFrom(t, cap, key, ProbeNext(index, p, cap), p, z)
             ELSE [res |-> "None"]

lookup(t, cap, key, key_hash) ==
    IF cap = 0 THEN [res |-> "Panic"]
    ELSE LookupFrom(t, cap, key, key_hash % cap, key_hash, 0)

\* ---------------------------------------------------------- force_insert
RECURSIVE ForceInsertFrom(_, _, _, _, _, _, _, _)
ForceInsertFrom(t, cap, key, value, key_hash, index, perturb, zsteps) ==
    IF zsteps > cap THEN [st |-> "hang", table |-> t]
    ELSE LET current == t[index]
             p == Shr(perturb)
             z == IF perturb = 0 THEN zsteps + 1 ELSE zsteps
         IN  IF current.tag = "Entry"
             THEN IF current.key = key
                  THEN [st |-> "ok",
                        table |-> [t EXCEPT ![index] = Entry(current.key, value, current.hash, index)]]
                  ELSE ForceInsertFrom(t, cap, key, value, key_hash,
                                       ProbeNext(index, p, cap), p, z)
             ELSE [st |-> "ok",
                   table |-> [t EXCEPT ![index] = Entry(key, value, key_hash, index)]]

force_insert(t, cap, key, value, key_hash) ==
    IF cap = 0 THEN [st |-> "panic", table |-> t]
    ELSE ForceInsertFrom(t, cap, key, value, key_hash, key_hash % cap, key_hash, 0)

\* ---------------------------------------------------------------- resize
\* Reinserts the entries of old (indices i..oldcap-1, in table order) into acc.
RECURSIVE Reinsert(_, _, _, _, _)
Reinsert(old, oldcap, i, acc, cap) ==
    IF i >= oldcap THEN [st |-> "ok", table |-> acc]
    ELSE IF old[i].tag = "Entry"
         THEN LET r == force_insert(acc, cap, old[i].key, old[i].val, old[i].hash)
              IN  IF r.st = "ok" THEN Reinsert(old, oldcap, i + 1, r.table, cap)
                  ELSE r
         ELSE Reinsert(old, oldcap, i + 1, acc, cap)

resize(t, oldcap, new_capacity) ==
    Reinsert(t, oldcap, 0, EmptyTable(new_capacity), new_capacity)

\* ---------------------------------------------------------------- insert
\* Variant of the growth test with the division taken last.
needs_grow_floor(cap, sz) == (2 * cap) \div 3 < sz

\* Variant of the growth test that lets one more entry in before doubling.
needs_grow_late(cap, sz) == 2 * (cap \div 3) < sz - 1

\* 2 * (self.capacity/3) < self.size
needs_grow(cap, sz) == 2 * (cap \div 3) < sz

\* The dictionary as a value: what a method leaves behind.
Dict(st, cap, sz, t) == [st |-> st, cap |-> cap, size |-> sz, table |-> t]

\* Variant of insert without self.size += 1.
insert_NoCount(d, key, value, key_hash) ==
    LET sz == d.size
        grow == needs_grow(d.cap, sz)
        cap == IF grow THEN 2 * d.cap ELSE d.cap
        r1 == IF grow THEN resize(d.table, d.cap, cap)
              ELSE [st |-> "ok", table |-> d.table]
    IN  IF r1.st # "ok" THEN Dict(r1.st, cap, sz, r1.table)
        ELSE LET r2 == force_insert(r1.table, cap, key, value, key_hash)
             IN  Dict(r2.st, cap, sz, r2.table)

insert(d, key, value, key_hash) ==
    LET sz == d.size + 1
        grow == needs_grow(d.cap, sz)
        cap == IF grow THEN 2 * d.cap ELSE d.cap
        r1 == IF grow THEN resize(d.table, d.cap, cap)
              ELSE [st |-> "ok", table |-> d.table]
    IN  IF r1.st # "ok" THEN Dict(r1.st, cap, sz, r1.table)
        ELSE LET r2 == force_insert(r1.table, cap, key, value, key_hash)
             IN  Dict(r2.st, cap, sz, r2.table)

\* ---------------------------------------------------------------- remove
\* Variant of the shrink test that also fires at size = capacity/3.
needs_shrink_or_equal(cap, sz) == sz <= cap \div 3

\* self.size < self.capacity/3
needs_shrink(cap, sz) == sz < cap \div 3

\* ret is <<>> for None and <<key, value>> for Some((key, value)).
remove(d, key, key_hash) ==
    LET l == lookup(d.table, d.cap, key, key_hash)
    IN  IF l.res = "Loop"
        THEN [d |-> Dict("hang", d.cap, d.size, d.table), ret |-> <<>>, slot |-> -1]
        ELSE IF l.res = "Panic"
        THEN [d |-> Dict("panic", d.cap, d.size, d.table), ret |-> <<>>, slot |-> -1]
        ELSE IF l.res = "Some" /\ d.size = 0
             \* self.size -= 1 on a zero usize
             THEN [d |-> Dict("panic", d.cap, d.size, d.table), ret |-> <<>>, slot |-> -1]
        ELSE LET t1 == IF l.res = "Some" THEN [d.table EXCEPT ![l.idx] = Tombstone]
                       ELSE d.table
                 sz == IF l.res = "Some" THEN d.size - 1 ELSE d.size
                 out == IF l.res = "Some" THEN <<l.key, l.val>> ELSE <<>>
                 shrink == needs_shrink(d.cap, sz)
                 cap == IF shrink THEN d.cap \div 2 ELSE d.cap
                 r == IF shrink THEN resize(t1, d.cap, cap)
                      ELSE [st |-> "ok", table |-> t1]
             IN  [d |-> Dict(r.st, cap, sz, r.table), ret |-> out,
                  slot |-> IF l.res = "Some" THEN l.idx ELSE -1]

\* ------------------------------------------------------------ get/contains
\* ret is <<>> for Err("Key does not exist") and <<value>> for Ok(value).
get(d, key, key_hash) ==
    LET l == lookup(d.table, d.cap, key, key_hash)
    IN  IF l.res = "Loop" THEN [st |-> "hang", ret |-> <<>>]
        ELSE IF l.res = "Panic" THEN [st |-> "panic", ret |-> <<>>]
        ELSE IF l.res = "Some" THEN [st |-> "ok", ret |-> <<l.val>>]
        ELSE [st |-> "ok", ret |-> <<>>]

contains(d, key, key_hash) ==
    LET l == lookup(d.table, d.cap, key, key_hash)
    IN  IF l.res = "Loop" THEN [st |-> "hang", ret |-> FALSE]
        ELSE IF l.res = "Panic" THEN [st |-> "panic", ret |-> FALSE]
        ELSE [st |-> "ok", ret |-> l.res = "Some"]

\* ------------------------------------------------------- keys/values/items
\* Variant of the table scan that gives up at the first Empty bucket.
RECURSIVE EntriesFrom_StopAtEmpty(_, _, _)
EntriesFrom_StopAtEmpty(t, cap, i) ==
    IF i >= cap \/ t[i].tag = "Empty" THEN <<>>
    ELSE IF t[i].tag = "Entry" THEN <<t[i]>> \o EntriesFrom_StopAtEmpty(t, cap, i + 1)
    ELSE EntriesFrom_StopAtEmpty(t, cap, i + 1)

\* for item in self.table.iter() { if let Bucket::Entry(n) = item { .. } }:
\* the Entry buckets at indices i..cap-1, in table order.
RECURSIVE EntriesFrom(_, _, _)
EntriesFrom(t, cap, i) ==
    IF i >= cap THEN <<>>
    ELSE IF t[i].tag = "Entry" THEN <<t[i]>> \o EntriesFrom(t, cap, i + 1)
    ELSE EntriesFrom(t, cap, i + 1)

keys(d) ==
    LET e == EntriesFrom(d.table, d.cap, 0) IN [j \in 1..Len(e) |-> e[j].key]

values(d) ==
    LET e == EntriesFrom(d.table, d.cap, 0) IN [j \in 1..Len(e) |-> e[j].val]

items(d) ==
    LET e == EntriesFrom(d.table, d.cap, 0) IN [j \in 1..Len(e) |-> <<e[j].key, e[j].val>>]

\* ------------------------------------------------------------ constructors
new == Dict("ok", NEW_CAPACITY, 0, EmptyTable(NEW_CAPACITY))

with_capacity(c) ==
    IF c = 0 THEN Dict("panic", 0, 0, EmptyTable(0))
    ELSE Dict("ok", c, 0, EmptyTable(c))

\* Inserts ks[i], vs[i] for the positions of order, in that order.
RECURSIVE InsertAll(_, _, _, _, _)
InsertAll(d, ks, vs, order, hf) ==
    IF order = <<>> \/ d.st # "ok" THEN d
    ELSE LET i == Head(order)
         IN  InsertAll(insert(d, ks[i], vs[i], hf[ks[i]]), ks, vs, Tail(order), hf)

Forward(n) == [i \in 1..n |-> i]
Backward(n) == [i \in 1..n |-> n + 1 - i]

\* (tuples.len()*2)/3 + 1
from_tuples_capacity(n) == (n * 2) \div 3 + 1

from_tuples(tuples, hf) ==
    IF Len(tuples) = 0 THEN Dict("panic", 0, 0, EmptyTable(0))
    ELSE InsertAll(with_capacity(from_tuples_capacity(Len(tuples))),
                   [i \in 1..Len(tuples) |-> tuples[i][1]],
                   [i \in 1..Len(tuples) |-> tuples[i][2]],
                   Forward(Len(tuples)), hf)

\* The capacity expression of from_vecs, read as (key_vec.len()/2)*3 + 1.
from_vecs_capacity(n) == (n \div 2) * 3 + 1

\* key_vec.pop() / value_vec.pop(): the pairs are inserted last to first.
from_vecs(key_vec, value_vec, hf) ==
    IF Len(key_vec) # Len(value_vec) THEN Dict("panic", 0, 0, EmptyTable(0))
    ELSE IF Len(key_vec) = 0 THEN Dict("panic", 0, 0, EmptyTable(0))
    ELSE InsertAll(with_capacity(from_vecs_capacity(Len(key_vec))),
                   key_vec, value_vec, Backward(Len(key_vec)), hf)

\* let tuples = vec![(1, 6), (2, 7), (3, 8), (4, 9), (5, 0)] of create_dict()
create_dict_tuples == <<<<1, 6>>, <<2, 7>>, <<3, 8>>, <<4, 9>>, <<5, 0>>>>
TestKeys == {create_dict_tuples[i][1] : i \in 1..Len(create_dict_tuples)}

\* ------------------------------------------------------------------ ghost
NoExpect == [k \in Keys |-> 0]

RECURSIVE ExpectAll(_, _, _, _)
ExpectAll(e, ks, vs, order) ==
    IF order = <<>> THEN e
    ELSE ExpectAll([e EXCEPT ![ks[Head(order)]] = vs[Head(order)]], ks, vs, Tail(order))

\* slot: the index remove found its key at (v.2), -1 otherwise.
\* input: the pairs a constructor was given, <<>> for every other call.
Last(op, key, val, ret, cap0, size0, slot) ==
    [op |-> op, key |-> key, val |-> val, ret |-> ret, cap0 |-> cap0, size0 |-> size0,
     slot |-> slot, input |-> <<>>]

\* A constructor call on the pairs of input.
LastBuilt(op, key, val, input) ==
    [Last(op, key, val, <<>>, 0, 0, -1) EXCEPT !.input = input]

\* The pairs (key_vec[i], value_vec[i]) in order; <<>> for different lengths.
Zip(key_vec, value_vec) ==
    IF Len(key_vec) # Len(value_vec) THEN <<>>
    ELSE [i \in 1..Len(key_vec) |-> <<key_vec[i], value_vec[i]>>]

SeqsUpTo(S, n) == UNION {[1..m -> S] : m \in 0..n}

Self == Dict(status, capacity, size, table)

\* d becomes the dictionary; a call that does not return leaves the fields.
Become(d) ==
    /\ status' = d.st
    /\ IF d.st = "ok"
       THEN capacity' = d.cap /\ size' = d.size /\ table' = d.table
       ELSE UNCHANGED <<capacity, size, table>>

\* ------------------------------------------------------------------- Init
Unbuilt ==
    /\ status = "none"
    /\ capacity = 0
    /\ size = 0
    /\ table = EmptyTable(0)
    /\ expect = NoExpect
    /\ last = Last("none", 0, 0, <<>>, 0, 0, -1)

\* Spec never uses AbsentKey: its hash is pinned.
Init ==
    /\ Unbuilt
    /\ hash \in {f \in HashFunctions : f[AbsentKey] = 0}

InitWide ==
    /\ Unbuilt
    /\ hash \in HashFunctions

\* ---------------------------------------------------------------- actions
New ==
    /\ status = "none"
    /\ Become(new)
    /\ last' = Last("new", 0, 0, <<>>, 0, 0, -1)
    /\ UNCHANGED <<hash, expect>>

WithCapacityIn(caps) ==
    /\ status = "none"
    /\ \E c \in caps :
        /\ Become(with_capacity(c))
        /\ last' = Last("with_capacity", c, 0, <<>>, 0, 0, -1)
    /\ UNCHANGED <<hash, expect>>

WithCapacity == WithCapacityIn(0..MaxInitCap)

\* create_dict(): Dictionary::from_tuples(tuples) on the five pairs of the
\* tests.  expect does not follow the keys of the tests.
CreateDict ==
    /\ status = "none"
    /\ Become(from_tuples(create_dict_tuples, hash))
    /\ last' = LastBuilt("from_tuples", Len(create_dict_tuples), 0, create_dict_tuples)
    /\ UNCHANGED <<hash, expect>>

WithCapacityWide == WithCapacityIn(0..MaxWideCap)

FromTuples ==
    /\ status = "none"
    /\ \E tuples \in SeqsUpTo(Pairs, MaxTuples) :
        LET d == from_tuples(tuples, hash)
            n == Len(tuples)
        IN  /\ Become(d)
            /\ last' = LastBuilt("from_tuples", n, 0, tuples)
            /\ expect' = IF d.st = "ok"
                         THEN ExpectAll(NoExpect, [i \in 1..n |-> tuples[i][1]],
                                        [i \in 1..n |-> tuples[i][2]], Forward(n))
                         ELSE expect
    /\ UNCHANGED hash

FromVecs ==
    /\ status = "none"
    /\ \E key_vec \in SeqsUpTo(Keys, MaxTuples), value_vec \in SeqsUpTo(Vals, MaxTuples) :
        LET d == from_vecs(key_vec, value_vec, hash)
        IN  /\ Become(d)
            /\ last' = LastBuilt("from_vecs", Len(key_vec), Len(value_vec),
                                  Zip(key_vec, value_vec))
            /\ expect' = IF d.st = "ok"
                         THEN ExpectAll(NoExpect, key_vec, value_vec, Backward(Len(key_vec)))
                         ELSE expect
    /\ UNCHANGED hash

InsertUpTo(maxcap) ==
    /\ status = "ok"
    /\ needs_grow(capacity, size + 1) => 2 * capacity <= maxcap
    /\ \E key \in Keys, value \in Vals :
        LET d == insert(Self, key, value, hash[key])
        IN  /\ Become(d)
            /\ last' = Last("insert", key, value, <<>>, capacity, size, -1)
            /\ expect' = IF d.st = "ok" THEN [expect EXCEPT ![key] = value] ELSE expect
    /\ UNCHANGED hash

Insert == InsertUpTo(MaxCap)

InsertWide == InsertUpTo(MaxWideCap)

RemoveIn(K) ==
    /\ status = "ok"
    /\ \E key \in K :
        LET r == remove(Self, key, hash[key])
        IN  /\ Become(r.d)
            /\ last' = Last("remove", key, 0, r.ret, capacity, size, r.slot)
            /\ expect' = IF r.d.st = "ok" /\ key \in Keys
                         THEN [expect EXCEPT ![key] = 0] ELSE expect
    /\ UNCHANGED hash

Remove == RemoveIn(Keys)

RemoveWide == RemoveIn(AllKeys)

RemoveTest == RemoveIn(TestKeys)

Get ==
    /\ status = "ok"
    /\ \E key \in Keys :
        LET r == get(Self, key, hash[key])
        IN  /\ status' = r.st
            /\ last' = Last("get", 0, 0, <<>>, capacity, size, -1)
    /\ UNCHANGED <<capacity, size, table, hash, expect>>

Contains ==
    /\ status = "ok"
    /\ \E key \in Keys :
        LET r == contains(Self, key, hash[key])
        IN  /\ status' = r.st
            /\ last' = Last("contains", 0, 0, <<>>, capacity, size, -1)
    /\ UNCHANGED <<capacity, size, table, hash, expect>>

\* *self = Dictionary::new()
Clear ==
    /\ status = "ok"
    /\ Become(new)
    /\ last' = Last("clear", 0, 0, <<>>, capacity, size, -1)
    /\ expect' = NoExpect
    /\ UNCHANGED hash

Next ==
    \/ New
    \/ WithCapacity
    \/ FromTuples
    \/ FromVecs
    \/ Insert
    \/ Remove
    \/ Get
    \/ Contains
    \/ Clear

Spec == Init /\ [][Next]_vars

\* Wider tables, and removes of a key that was never inserted.
NextWide ==
    \/ WithCapacityWide
    \/ InsertWide
    \/ RemoveWide

SpecWide == InitWide /\ [][NextWide]_vars

\* Hashes of more than PERTURB_SHIFT bits.
InitProbe ==
    /\ Unbuilt
    /\ hash \in ProbeHashFunctions

NextProbe ==
    \/ New
    \/ WithCapacity
    \/ Insert
    \/ Remove

SpecProbe == InitProbe /\ [][NextProbe]_vars

\* The dictionary of the tests: create_dict(), then removes of its keys.
InitDown ==
    /\ Unbuilt
    /\ hash \in [TestKeys -> HashVals]

NextDown ==
    \/ CreateDict
    \/ RemoveTest

SpecDown == InitDown /\ [][NextDown]_vars

\* ------------------------------------------------------------ type check
TypeOK ==
    /\ status \in {"none", "ok", "panic", "hang"}
    /\ capacity \in 0..MaxWideCap
    /\ size \in 0..MaxWideCap
    /\ DOMAIN table = 0..(capacity - 1)

\* ------------------------------------------------------------ observations
Ok == status = "ok"

Built == status # "none"

\* get(k) and contains(k) on the current dictionary.
GetNow(k) == get(Self, k, hash[k])
ContainsNow(k) == contains(Self, k, hash[k])

\* The indices holding an Entry, and those holding an Entry for key k.
EntrySlots == {i \in DOMAIN table : table[i].tag = "Entry"}
SlotsOf(k) == {i \in EntrySlots : table[i].key = k}
TombstoneSlots == {i \in DOMAIN table : table[i].tag = "Tombstone"}

\* ------------------------------------------------------------------ claims

\* C1: once insert(k, v) has returned, get(k) returns Ok(v) until the next
\* insert or remove of k itself, whatever calls on other keys come between
\* (a get that returns, returns Ok(v)).
C1_RoundTrip ==
    Ok => \A k \in Keys :
            (expect[k] # 0 /\ GetNow(k).st = "ok") => GetNow(k).ret = <<expect[k]>>

\* C2: after remove(k) has returned for a key k that was present,
\* contains(k) is false and get(k) is the Err result: a lookup of k that
\* returns finds no live copy of k.
C2_Deletion ==
    (Ok /\ last.op = "remove" /\ last.ret # <<>>) =>
        /\ ContainsNow(last.key).ret = FALSE
        /\ GetNow(last.key).ret = <<>>

\* C3: the table holds at most one Entry slot per key.
C3_KeyUniqueness ==
    Ok => \A k \in Keys : Cardinality(SlotsOf(k)) <= 1

\* C4: after every completed operation size() is the number of Entry slots.
C4_SizeIsEntryCount ==
    Ok => size = Cardinality(EntrySlots)

\* C7: every public operation runs to completion: no call is left looping.
C7_Termination ==
    status # "hang"

\* The dictionary after the step, and get(k) on it.
SelfNext == Dict(status', capacity', size', table')
GetNext(k) == get(SelfNext, k, hash[k])

\* The step is a call of op that was entered with the dictionary intact.
Called(op) == status = "ok" /\ last'.op = op

\* The lookup that remove(k) starts with returns.
LookupReturns(k) == lookup(table, capacity, k, hash[k]).res \in {"Some", "None"}

C6_Shrink ==
    [][(Called("remove") /\ LookupReturns(last'.key)) =>
        /\ status' = "ok"
        /\ IF size' < capacity \div 3
           THEN /\ capacity' = capacity \div 2
                /\ \A i \in DOMAIN table' : table'[i].tag # "Tombstone"
           ELSE capacity' = capacity
        /\ \A k \in Keys \ {last'.key} :
               GetNow(k).ret # <<>> => GetNext(k) = GetNow(k)]_vars

\* C8: remove(k) of a key with contains(k) = false returns None, does not
\* panic, and leaves size() and the result of get for every key unchanged.
C8_RemoveAbsent ==
    [][(Called("remove") /\ ContainsNow(last'.key) = [st |-> "ok", ret |-> FALSE]) =>
        /\ status' = "ok"
        /\ last'.ret = <<>>
        /\ size' = size
        /\ \A k \in Keys :
               (GetNow(k).st = "ok" /\ GetNext(k).st = "ok") => GetNext(k).ret = GetNow(k).ret]_vars

\* C9: with_capacity(0), from_tuples of no pairs, from_vecs of sequences of
\* different length or of two empty sequences panic; every other input
\* returns a dictionary, and with_capacity(c >= 1) an empty one of capacity c.
C9_Construction ==
    /\ last.op = "with_capacity" =>
           IF last.key = 0 THEN status = "panic"
           ELSE /\ Ok /\ capacity = last.key /\ size = 0
                /\ \A i \in DOMAIN table : table[i] = Empty
    /\ last.op = "from_tuples" =>
           IF last.key = 0 THEN status = "panic" ELSE Ok
    /\ last.op = "from_vecs" =>
           IF last.key # last.val \/ last.key = 0 THEN status = "panic" ELSE Ok

\* The indices a lookup of key visits before the slot it stops at.
RECURSIVE PathFrom(_, _, _, _, _, _)
PathFrom(t, cap, key, index, perturb, zsteps) ==
    IF zsteps > cap THEN {}
    ELSE LET current == t[index]
             p == Shr(perturb)
             z == IF perturb = 0 THEN zsteps + 1 ELSE zsteps
         IN  IF current.tag = "Empty" \/ (current.tag = "Entry" /\ current.key = key)
             THEN {}
             ELSE {index} \cup PathFrom(t, cap, key, ProbeNext(index, p, cap), p, z)

PathBefore(k) == PathFrom(table, capacity, k, hash[k] % capacity, hash[k], 0)

\* C10: when key A occupies a slot on the probe path of B in front of B's
\* slot as insert(B, v) returns, and A is removed next, get(B) is still
\* Ok(v): the Tombstone left for A does not end the lookup of B.
C10_Tombstone ==
    [][(/\ Ok /\ last.op = "insert"
        /\ last'.op = "remove" /\ status' = "ok"
        /\ last'.key # last.key
        /\ last'.slot \in PathBefore(last.key))
       => GetNext(last.key) = [st |-> "ok", ret |-> <<last.val>>]]_vars

\* A remove has just turned slot i into a Tombstone, and the lookup of some
\* other key walks over that Tombstone and finds the key behind it.
C10_Witness ==
    /\ Ok /\ last.op = "remove" /\ last.slot >= 0
    /\ capacity = last.cap0
    /\ table[last.slot].tag = "Tombstone"
    /\ \E b \in Keys \ {last.key} :
           /\ last.slot \in PathBefore(b)
           /\ GetNow(b) = [st |-> "ok", ret |-> <<expect[b]>>]
           /\ expect[b] # 0

\* C11: after every completed constructor, insert, remove or clear,
\* size() <= floor(2*capacity()/3) and so size() <= capacity(); the size
\* counter an insert has incremented is within the capacity its entry is
\* placed in.
C11_LoadFactor ==
    Ok => /\ size <= (2 * capacity) \div 3
          /\ size <= capacity

\* An insert that doubled the capacity and left the table exactly at
\* floor(2*capacity/3) entries counted.
C11_Witness ==
    /\ Ok /\ last.op = "insert"
    /\ capacity = 2 * last.cap0
    /\ size = last.size0 + 1
    /\ size = (2 * capacity) \div 3

\* C12: from_tuples on n >= 1 pairs allocates at least floor(3n/2) slots,
\* enough that inserting the n pairs triggers no growth: capacity() after
\* construction is the capacity first allocated.
C12_FromTuplesCapacity ==
    (Ok /\ last.op = "from_tuples") =>
        /\ from_tuples_capacity(last.key) >= (3 * last.key) \div 2
        /\ capacity = from_tuples_capacity(last.key)

\* The keys of a sequence of pairs, whether they are pairwise distinct, and
\* the value paired with the last occurrence of key k.
KeysOf(input) == {input[i][1] : i \in 1..Len(input)}
DistinctKeys(input) == Cardinality(KeysOf(input)) = Len(input)
LaterValue(input, k) ==
    LET occ == {i \in 1..Len(input) : input[i][1] = k}
    IN  input[CHOOSE i \in occ : \A j \in occ : j <= i][2]

\* C13: from_vecs(keys, values) on non-empty sequences of equal length
\* builds the mapping of from_tuples on the pairs (keys[i], values[i]) in
\* order: every key is present with the value of its later occurrence, and
\* size() = n for n distinct keys.
C13_FromVecsAsTuples ==
    (Ok /\ last.op = "from_vecs") =>
        LET ref == from_tuples(last.input, hash)
        IN  /\ \A k \in KeysOf(last.input) :
                   GetNow(k).ret = <<LaterValue(last.input, k)>>
            /\ ref.st = "ok" =>
                   \A k \in Keys : GetNow(k).ret = get(ref, k, hash[k]).ret
            /\ DistinctKeys(last.input) => size = Len(last.input)

\* The elements of a sequence as a set.
Range(seq) == {seq[i] : i \in 1..Len(seq)}

\* C14: for a dictionary built by from_tuples from n pairs with pairwise
\* distinct keys, keys(), values() and items() have n elements each, and as
\* sets they are the input keys, the input values and the input pairs,
\* whatever the storage order and the resizes during construction.
C14_Enumeration ==
    (Ok /\ last.op = "from_tuples" /\ DistinctKeys(last.input)) =>
        LET n == Len(last.input)
        IN  /\ Len(keys(Self)) = n
            /\ Range(keys(Self)) = KeysOf(last.input)
            /\ Len(values(Self)) = n
            /\ Range(values(Self)) = {last.input[i][2] : i \in 1..n}
            /\ Len(items(Self)) = n
            /\ Range(items(Self)) = Range(last.input)

\* from_tuples of NumKeys pairs with distinct keys that grew the table while
\* inserting and stores the pairs in another order than it was given them.
C14_Witness ==
    /\ Ok /\ last.op = "from_tuples" /\ DistinctKeys(last.input)
    /\ Len(last.input) = NumKeys
    /\ capacity > from_tuples_capacity(NumKeys)
    /\ items(Self) # last.input
    /\ Range(items(Self)) = Range(last.input)

\* The indices the probe loop visits from (index, perturb) when no bucket
\* ends it: once perturb is 0 the next index depends on the index alone, so
\* cap + 1 further iterations go round every index that is ever reached.
RECURSIVE ProbeIndices(_, _, _, _)
ProbeIndices(cap, index, perturb, zsteps) ==
    IF zsteps > cap THEN {}
    ELSE LET p == Shr(perturb)
             z == IF perturb = 0 THEN zsteps + 1 ELSE zsteps
         IN  {index} \cup ProbeIndices(cap, ProbeNext(index, p, cap), p, z)

\* C15: for every capacity the table has and every hash h, the probe
\* sequence that starts at h mod capacity visits every index
\* 0..capacity-1, also once perturb has decayed to zero.
C15_ProbeExhaustive ==
    Ok => \A h \in HashVals :
            ProbeIndices(capacity, h % capacity, h, 0) = 0..(capacity - 1)

\* The indices the loop of lookup reads, in order, up to the bucket that
\* ends it.
RECURSIVE LookupVisitsFrom(_, _, _, _, _, _)
LookupVisitsFrom(t, cap, key, index, perturb, zsteps) ==
    IF zsteps > cap THEN <<>>
    ELSE LET current == t[index]
             p == Shr(perturb)
             z == IF perturb = 0 THEN zsteps + 1 ELSE zsteps
         IN  IF current.tag = "Empty" \/ (current.tag = "Entry" /\ current.key = key)
             THEN <<index>>
             ELSE <<index>> \o LookupVisitsFrom(t, cap, key, ProbeNext(index, p, cap), p, z)

\* The indices the loop of force_insert reads, in order, up to the bucket it
\* writes.
RECURSIVE ForceInsertVisitsFrom(_, _, _, _, _, _)
ForceInsertVisitsFrom(t, cap, key, index, perturb, zsteps) ==
    IF zsteps > cap THEN <<>>
    ELSE LET current == t[index]
             p == Shr(perturb)
             z == IF perturb = 0 THEN zsteps + 1 ELSE zsteps
         IN  IF current.tag = "Entry" /\ current.key # key
             THEN <<index>> \o ForceInsertVisitsFrom(t, cap, key, ProbeNext(index, p, cap), p, z)
             ELSE <<index>>

LookupVisits(k) == LookupVisitsFrom(table, capacity, k, hash[k] % capacity, hash[k], 0)
ForceInsertVisits(k) ==
    ForceInsertVisitsFrom(table, capacity, k, hash[k] % capacity, hash[k], 0)

\* The first n indices of the sequence as stated: the step uses the perturb
\* it finds and shifts it afterwards.
RECURSIVE StepThenShift(_, _, _, _)
StepThenShift(cap, index, perturb, n) ==
    IF n = 0 THEN <<>>
    ELSE <<index>> \o StepThenShift(cap, (5 * index + 1 + perturb) % cap, perturb \div 32, n - 1)

\* The first n indices when the step shifts perturb first and uses the
\* shifted value.
RECURSIVE ShiftThenStep(_, _, _, _)
ShiftThenStep(cap, index, perturb, n) ==
    IF n = 0 THEN <<>>
    ELSE <<index>> \o ShiftThenStep(cap, (5 * index + 1 + perturb \div 32) % cap,
                                    perturb \div 32, n - 1)

\* C16 (as stated): lookup and force_insert read the same index sequence
\* for a key, the one that starts at h mod capacity with perturb = h and
\* steps with index = (5*index + 1 + perturb) mod capacity before
\* perturb = perturb >> 5.
C16_StepThenShift ==
    Ok => \A k \in Keys :
            /\ LookupVisits(k) =
                   StepThenShift(capacity, hash[k] % capacity, hash[k], Len(LookupVisits(k)))
            /\ ForceInsertVisits(k) =
                   StepThenShift(capacity, hash[k] % capacity, hash[k], Len(ForceInsertVisits(k)))

\* C16 (amended): lookup and force_insert read the same index sequence for
\* a key, the one that starts at h mod capacity with perturb = h and steps
\* with perturb = perturb >> 5 before index = (5*index + 1 + perturb) mod
\* capacity.
C16_ShiftThenStep ==
    Ok => \A k \in Keys :
            /\ LookupVisits(k) =
                   ShiftThenStep(capacity, hash[k] % capacity, hash[k], Len(LookupVisits(k)))
            /\ ForceInsertVisits(k) =
                   ShiftThenStep(capacity, hash[k] % capacity, hash[k], Len(ForceInsertVisits(k)))

\* A key whose hash has more than PERTURB_SHIFT bits is found at the second
\* index of its probe sequence, which is not the second index as stated.
C16_Witness ==
    /\ Ok
    /\ \E k \in Keys :
           /\ hash[k] >= 2 ^ PERTURB_SHIFT
           /\ Len(LookupVisits(k)) >= 2
           /\ ContainsNow(k) = [st |-> "ok", ret |-> TRUE]
           /\ LookupVisits(k)[2] # (5 * (hash[k] % capacity) + 1 + hash[k]) % capacity
           /\ LookupVisits(k)[2] # (5 * (hash[k] % capacity) + 1) % capacity

\* C17: a dictionary built by from_tuples from 5 pairs with distinct keys
\* reports capacity() = 5 after two successive removes of present keys.
C17_DownSize ==
    [][(/\ Ok /\ last.op = "remove" /\ last.ret # <<>> /\ last.size0 = 5
        /\ last'.op = "remove" /\ last'.ret # <<>> /\ status' = "ok")
       => capacity' = 5]_vars

\* C18: a dictionary, also one a call is left looping on, always has
\* capacity >= 1 and a table of capacity buckets; no remove, hit or miss, shrinks the capacity to 0, so the modulo
\* by capacity in lookup and force_insert never divides by zero.
C18_CapacityPositive ==
    /\ (Ok \/ (status = "hang" /\ last.op \in {"insert", "remove", "get", "contains"})) =>
           /\ capacity >= 1
           /\ DOMAIN table = 0..(capacity - 1)
           /\ \A k \in AllKeys : lookup(table, capacity, k, hash[k]).res # "Panic"
    /\ last.op \in {"insert", "remove", "get", "contains", "clear"} => status # "panic"

\* A remove on an empty dictionary of capacity 1, reached by halving from
\* capacity 3, that leaves the capacity at 1.
C18_Witness ==
    /\ Ok /\ last.op = "remove"
    /\ last.cap0 = 1 /\ last.size0 = 0
    /\ capacity = 1

\* The probe sequence of (perturb = hash, cap) reaches index target from
\* index without reading an Empty bucket on the way.
RECURSIVE ReachesFrom(_, _, _, _, _, _)
ReachesFrom(t, cap, target, index, perturb, zsteps) ==
    IF zsteps > cap THEN FALSE
    ELSE LET p == Shr(perturb)
             z == IF perturb = 0 THEN zsteps + 1 ELSE zsteps
         IN  IF index = target THEN TRUE
             ELSE IF t[index].tag = "Empty" THEN FALSE
             ELSE ReachesFrom(t, cap, target, ProbeNext(index, p, cap), p, z)

\* C19: every Entry slot i holds the hash of its key, the probe sequence
\* of that hash reaches i in finitely many steps without reading an Empty
\* slot first, and so contains(k) is true for every key stored in an Entry.
C19_EntriesReachable ==
    Ok => \A i \in EntrySlots :
            /\ table[i].hash = hash[table[i].key]
            /\ ReachesFrom(table, capacity, i, table[i].hash % capacity, table[i].hash, 0)
            /\ ContainsNow(table[i].key) = [st |-> "ok", ret |-> TRUE]

\* After a remove, an Entry lies behind the Tombstone the remove left on its
\* probe path, away from its home index.
C19_Witness ==
    /\ Ok /\ last.op = "remove" /\ last.slot >= 0
    /\ capacity = last.cap0
    /\ table[last.slot].tag = "Tombstone"
    /\ \E i \in EntrySlots :
           /\ i # table[i].hash % capacity
           /\ last.slot \in PathBefore(table[i].key)
           /\ ReachesFrom(table, capacity, i, table[i].hash % capacity, table[i].hash, 0)

\* C20: the size counter never undercounts and never underflows: the
\* number of Entry slots is <= size in every state, and the self.size -= 1
\* of remove runs with size >= 1 only, also after inserts of a key that is
\* already stored and after rehashes.
C20_SizeNoUnderflow ==
    /\ Ok => Cardinality(EntrySlots) <= size
    /\ last.op = "remove" =>
           /\ status # "panic"
           /\ (Ok /\ last.ret # <<>>) => (last.size0 >= 1 /\ size = last.size0 - 1)

\* A remove that found its key in a dictionary whose size counter was above
\* the number of its Entry slots, and still is.
C20_Witness ==
    /\ Ok /\ last.op = "remove" /\ last.ret # <<>>
    /\ Cardinality(EntrySlots) < size
====
